---- MODULE Spec2Model ----
(***************************************************************************)
(* Model of src/batch_analysis.py: one run of the feedback batch job       *)
(* (module start-up, fetch_feedback_notes, main, analyze_trends_with_gpt,  *)
(* split_text_for_blocks, post_analysis_to_slack) as a state machine.      *)
(*                                                                         *)
(* A text is a sequence of one-character strings.  A feedback note is the  *)
(* 1-based position it has in the feedback source.                         *)
(***************************************************************************)
EXTENDS Integers, Sequences, FiniteSets

VARIABLES
    pc,           \* where the run is: startup, fetch, main, analyze, chunk, post, exited
    env,          \* names of the configuration values present in the environment
    channel,      \* PRODUCT_TEAM_CHANNEL as read at start-up
    srcN,         \* number of notes the feedback source holds in the window
    honest,       \* the source answers every request with all it has, up to the limit
    page_offset,  \* fetch_feedback_notes: page_offset
    notes,        \* fetch_feedback_notes: notes
    requests,     \* query parameters of every page request issued, in order
    responses,    \* the response to every page request, in order
    gptCalls,     \* every chat-completion call issued, in order
    analysis,     \* main: analysis
    text,         \* split_text_for_blocks: text (what remains to be chunked)
    max_len,      \* split_text_for_blocks: max_len
    blocks,       \* split_text_for_blocks: blocks
    input,        \* the text split_text_for_blocks was called with
    postCalls,    \* every chat_postMessage call issued, in order
    raised,       \* the exception that left main, or "none"
    exit_status,  \* running, success (status 0) or failure (status 1)
    log           \* logger output, in order

vars == <<pc, env, channel, srcN, honest, page_offset, notes, requests, responses,
          gptCalls, analysis, text, max_len, blocks, input, postCalls, raised,
          exit_status, log>>

fetchVars == <<srcN, honest, page_offset, notes, requests, responses>>
chunkVars == <<text, max_len, blocks, input>>

----------------------------------------------------------------------------
(* Bounds of the model *)

MaxN == 237
MaxTextLen == 5
MaxL == 3

----------------------------------------------------------------------------
(* Program constants *)

page_limit == 100
Days == 14
DefaultMaxLen == 2900

NL == "\n"
Chars == {"a", "b", " ", NL}
Whitespace == {" ", NL}

ConfigKeys == {"SLACK_BOT_TOKEN", "PRODUCTBOARD_API_TOKEN", "OPENAI_API_KEY",
               "PRODUCT_TEAM_CHANNEL"}

\* The keys read with os.environ[...]: a missing one raises KeyError.
RequiredKeysBug == {"SLACK_BOT_TOKEN", "PRODUCTBOARD_API_TOKEN"}
RequiredKeys == {"SLACK_BOT_TOKEN", "PRODUCTBOARD_API_TOKEN", "OPENAI_API_KEY"}

\* os.environ.get("PRODUCT_TEAM_CHANNEL"): the value, or None.
EnvGet(e, key) == IF key \in e THEN "C0123" ELSE "None"

\* f"{days}d"
LastParam(days) == <<days, "d">>

----------------------------------------------------------------------------
(* Helpers: Python slices and string methods *)

Min(a, b) == IF a <= b THEN a ELSE b
Max(a, b) == IF a >= b THEN a ELSE b

\* s[:n] for n >= 0
Prefix(s, n) == SubSeq(s, 1, Min(n, Len(s)))

\* s[n:] for n >= 0
Suffix(s, n) == SubSeq(s, Min(n, Len(s)) + 1, Len(s))

\* s.rfind(c): the 0-based index of the last c in s, or -1
RFind(s, c) ==
    LET I == {i \in 1..Len(s) : s[i] = c}
    IN  IF I = {} THEN -1 ELSE (CHOOSE i \in I : \A j \in I : j <= i) - 1

\* s.lstrip(c)
RECURSIVE LStrip(_, _)
LStrip(s, c) == IF s # <<>> /\ s[1] = c THEN LStrip(Tail(s), c) ELSE s

----------------------------------------------------------------------------
(* The feedback source *)

\* The notes at 0-based offsets off .. off+n-1 of the source.
Slice(off, n) == [i \in 1..n |-> off + i]

\* The sizes a page requested at offset off may have.
ShortSizes == {0, 1, 37}
PageSizes(off) ==
    LET full == Min(page_limit, Max(0, srcN - off))
    IN  IF honest THEN {full} ELSE {full} \cup {k \in ShortSizes : k < full}

----------------------------------------------------------------------------
(* Module start-up, lines 16-25, and the call of main, line 120 *)

Startup ==
    /\ pc = "startup"
    /\ IF RequiredKeys \subseteq env
       THEN /\ channel' = EnvGet(env, "PRODUCT_TEAM_CHANNEL")
            /\ pc' = "fetch"
            /\ UNCHANGED <<raised, exit_status>>
       ELSE /\ raised' = "KeyError"
            /\ exit_status' = "failure"
            /\ pc' = "exited"
            /\ UNCHANGED channel
    /\ UNCHANGED <<env, fetchVars, gptCalls, analysis, chunkVars, postCalls, log>>

----------------------------------------------------------------------------
(* fetch_feedback_notes, lines 27-55: one iteration of the while loop *)

\* response.raise_for_status() raises
RaiseForStatusBug(response) == FALSE
RaiseForStatus(response) == ~response.ok

\* notes.extend(batch)
Extend(ns, batch) == ns \o batch

\* len(batch) < page_limit
IsLastPageBug(batch) == Len(batch) <= page_limit
IsLastPage(batch) == Len(batch) < page_limit

\* page_offset += page_limit
NextOffsetBug(off) == off + 1
NextOffset(off) == off + page_limit

FetchPage ==
    /\ pc = "fetch"
    /\ \E ok \in BOOLEAN, n \in PageSizes(page_offset) :
         LET params == [pageLimit |-> page_limit, pageOffset |-> page_offset,
                        last |-> LastParam(Days)]
             response == [ok |-> ok,
                          data |-> IF ok THEN Slice(page_offset, n) ELSE <<>>]
             batch == response.data
         IN  /\ requests' = Append(requests, params)
             /\ responses' = Append(responses, response)
             /\ IF RaiseForStatus(response)
                THEN /\ raised' = "HTTPError"
                     /\ exit_status' = "failure"
                     /\ pc' = "exited"
                     /\ UNCHANGED <<notes, page_offset, log>>
                ELSE /\ notes' = Extend(notes, batch)
                     /\ IF IsLastPage(batch)
                        THEN /\ pc' = "main"
                             /\ log' = log \o <<<<"info", "fetched">>, <<"info", "total">>>>
                             /\ UNCHANGED page_offset
                        ELSE /\ pc' = "fetch"
                             /\ log' = Append(log, <<"info", "fetched">>)
                             /\ page_offset' = NextOffset(page_offset)
                     /\ UNCHANGED <<raised, exit_status>>
    /\ UNCHANGED <<env, channel, srcN, honest, gptCalls, analysis, chunkVars, postCalls>>

----------------------------------------------------------------------------
(* main, lines 112-115: the empty-batch test *)

\* not notes
NoNotesBug(ns) == FALSE
NoNotes(ns) == ns = <<>>

MainCheck ==
    /\ pc = "main"
    /\ IF NoNotes(notes)
       THEN /\ log' = Append(log, <<"warning", "no notes">>)
            /\ exit_status' = "success"
            /\ pc' = "exited"
       ELSE /\ pc' = "analyze"
            /\ UNCHANGED <<log, exit_status>>
    /\ UNCHANGED <<env, channel, fetchVars, gptCalls, analysis, chunkVars, postCalls, raised>>

----------------------------------------------------------------------------
(* analyze_trends_with_gpt, lines 57-79, called at line 116 *)

\* prepare_analysis_prompt: the intro states len(notes), then one line per note
PreparePrompt(ns) == [count |-> Len(ns), lines |-> ns]

AnalysisTexts == {<<>>, <<"a">>, <<"a", NL, "b">>, <<NL, "a", " ", NL, NL, "b">>}

Analyze ==
    /\ pc = "analyze"
    /\ \E ok \in BOOLEAN, answer \in AnalysisTexts :
         /\ gptCalls' = Append(gptCalls, [prompt |-> PreparePrompt(notes), ok |-> ok])
         /\ IF ok
            THEN /\ analysis' = answer
                 /\ log' = log \o <<<<"info", "sending">>, <<"info", "received">>>>
                 \* post_analysis_to_slack, line 100: split_text_for_blocks(analysis_text)
                 /\ text' = answer
                 /\ input' = answer
                 /\ max_len' = DefaultMaxLen
                 /\ blocks' = <<>>
                 /\ pc' = "chunk"
                 /\ UNCHANGED <<raised, exit_status>>
            ELSE /\ log' = Append(log, <<"info", "sending">>)
                 /\ raised' = "OpenAIError"
                 /\ exit_status' = "failure"
                 /\ pc' = "exited"
                 /\ UNCHANGED <<analysis, chunkVars>>
    /\ UNCHANGED <<env, channel, fetchVars, postCalls>>

----------------------------------------------------------------------------
(* split_text_for_blocks, lines 81-97 *)

\* text[:max_len]
CandidateBug(t, L) == Prefix(t, L + 1)
Candidate(t, L) == Prefix(t, L)

\* last_newline > 0
BreakAtNewlineBug(last_newline) == last_newline >= 0
BreakAtNewline(last_newline) == last_newline > 0

\* lines 85-88: the chunk taken from text
Chunk(t, L) ==
    LET chunk == Candidate(t, L)
        last_newline == RFind(chunk, NL)
    IN  IF BreakAtNewline(last_newline) THEN Prefix(chunk, last_newline) ELSE chunk

\* line 96: text[len(chunk):].lstrip('\n')
RemainingBug(t, chunk) == LStrip(Suffix(t, Len(chunk) + 1), NL)
Remaining(t, chunk) == LStrip(Suffix(t, Len(chunk)), NL)

\* lines 89-95: the block appended for a chunk
Block(chunk) == [type |-> "section", text |-> [type |-> "mrkdwn", text |-> chunk]]

\* one iteration of `while text`
ChunkStep ==
    /\ pc = "chunk"
    /\ text # <<>>
    /\ LET chunk == Chunk(text, max_len)
       IN  /\ blocks' = Append(blocks, Block(chunk))
           /\ text' = Remaining(text, chunk)
    /\ UNCHANGED <<pc, env, channel, fetchVars, gptCalls, analysis, max_len, input,
                   postCalls, raised, exit_status, log>>

\* the loop test fails: return blocks
ChunkReturn ==
    /\ pc = "chunk"
    /\ text = <<>>
    /\ pc' = "post"
    /\ UNCHANGED <<env, channel, fetchVars, gptCalls, analysis, chunkVars, postCalls,
                   raised, exit_status, log>>

----------------------------------------------------------------------------
(* post_analysis_to_slack, lines 102-109, and the return of main *)

\* What client.chat_postMessage may do: return, raise SlackApiError (the provider
\* answered with an error), or raise another exception (the request never got an
\* answer).
PostOutcomes == {"ok", "SlackApiError", "OtherError"}

\* except SlackApiError
CaughtBug(outcome) == FALSE
Caught(outcome) == outcome = "SlackApiError"

Post ==
    /\ pc = "post"
    /\ \E outcome \in PostOutcomes :
         /\ postCalls' = Append(postCalls, [channel |-> channel, blocks |-> blocks,
                                           outcome |-> outcome])
         /\ IF outcome = "ok"
            THEN /\ log' = Append(log, <<"info", "posted">>)
                 /\ exit_status' = "success"
                 /\ UNCHANGED raised
            ELSE IF Caught(outcome)
            THEN /\ log' = Append(log, <<"error", "failed to post">>)
                 /\ exit_status' = "success"
                 /\ UNCHANGED raised
            ELSE /\ raised' = outcome
                 /\ exit_status' = "failure"
                 /\ UNCHANGED log
         /\ pc' = "exited"
    /\ UNCHANGED <<env, channel, fetchVars, gptCalls, analysis, chunkVars>>

----------------------------------------------------------------------------
(* The run *)

Init ==
    /\ pc = "startup"
    /\ env \in SUBSET ConfigKeys
    /\ channel = "unset"
    /\ srcN \in 0..MaxN
    /\ honest \in BOOLEAN
    /\ page_offset = 0
    /\ notes = <<>>
    /\ requests = <<>>
    /\ responses = <<>>
    /\ gptCalls = <<>>
    /\ analysis = <<>>
    /\ text = <<>>
    /\ max_len = DefaultMaxLen
    /\ blocks = <<>>
    /\ input = <<>>
    /\ postCalls = <<>>
    /\ raised = "none"
    /\ exit_status = "running"
    /\ log = <<>>

Next == Startup \/ FetchPage \/ MainCheck \/ Analyze \/ ChunkStep \/ ChunkReturn \/ Post

Spec == Init /\ [][Next]_vars

----------------------------------------------------------------------------
(* split_text_for_blocks alone, on every text and every maximum length *)

Texts == UNION {[1..n -> Chars] : n \in 0..MaxTextLen}

\* A 3000-character text whose only newline is at 0-based position 1500.
LongText == [i \in 1..3000 |-> IF i = 1501 THEN NL ELSE "a"]

InitChunk ==
    /\ pc = "chunk"
    /\ env = ConfigKeys
    /\ channel = "unset"
    /\ srcN = 0
    /\ honest = TRUE
    /\ page_offset = 0
    /\ notes = <<>>
    /\ requests = <<>>
    /\ responses = <<>>
    /\ gptCalls = <<>>
    /\ analysis = <<>>
    /\ \/ text \in Texts /\ max_len \in 1..MaxL
       \/ text \in Texts /\ max_len = DefaultMaxLen
       \/ text = LongText /\ max_len = DefaultMaxLen
    /\ input = text
    /\ blocks = <<>>
    /\ postCalls = <<>>
    /\ raised = "none"
    /\ exit_status = "running"
    /\ log = <<>>

NextChunk == ChunkStep \/ ChunkReturn

SpecChunk == InitChunk /\ [][NextChunk]_vars

FairSpecChunk == SpecChunk /\ WF_vars(NextChunk)

----------------------------------------------------------------------------
(* Helpers of the properties *)

\* fetch_feedback_notes returned its notes (the loop ended at a short page).
FetchReturned ==
    /\ pc # "startup" /\ pc # "fetch"
    /\ responses # <<>>
    /\ responses[Len(responses)].ok

\* The records of the pages received, in request order.
RECURSIVE ConcatData(_)
ConcatData(rs) == IF rs = <<>> THEN <<>> ELSE rs[1].data \o ConcatData(Tail(rs))

ChunkText(b) == b.text.text

\* The chunks one after the other, and with one newline between consecutive chunks.
RECURSIVE Flat(_)
Flat(bs) == IF bs = <<>> THEN <<>> ELSE ChunkText(bs[1]) \o Flat(Tail(bs))
RECURSIVE JoinNL(_)
JoinNL(bs) ==
    IF bs = <<>> THEN <<>>
    ELSE IF Len(bs) = 1 THEN ChunkText(bs[1])
    ELSE ChunkText(bs[1]) \o <<NL>> \o JoinNL(Tail(bs))

IsNonWs(c) == c \notin Whitespace
IsNotNL(c) == c # NL
NonWs(s) == SelectSeq(s, IsNonWs)
WithoutNL(s) == SelectSeq(s, IsNotNL)

SetMax(S) == CHOOSE i \in S : \A j \in S : j <= i

----------------------------------------------------------------------------
(* C1: the page requests go out at offsets 0, 100, 200, ... in that order,   *)
(* each with page limit 100 and the same lookback filter; no request follows *)
(* the first page of fewer than 100 records; when the fetch returns, its     *)
(* last page is that short page and the result is the concatenation of the   *)
(* pages received, in request order.                                         *)
C1_PaginationOrder ==
    /\ Len(responses) = Len(requests)
    /\ \A i \in 1..Len(requests) :
         /\ requests[i].pageOffset = (i - 1) * 100
         /\ requests[i].pageLimit = 100
         /\ requests[i].last = requests[1].last
    /\ \A i \in 1..Len(responses) :
         (responses[i].ok /\ Len(responses[i].data) < 100) => i = Len(requests)
    /\ notes = ConcatData(responses)
    /\ FetchReturned => Len(responses[Len(responses)].data) < 100

C1_Witness ==
    /\ pc = "main"
    /\ Len(requests) = 3
    /\ Len(responses[1].data) = 100
    /\ Len(responses[2].data) = 100
    /\ Len(responses[3].data) = 37
    /\ Len(notes) = 237

(* C2: against a source of N notes that answers offset o with the notes      *)
(* o .. min(o+100, N)-1, the fetch returns exactly the N notes, each once    *)
(* and in source order, after floor(N/100)+1 requests, and issues no request *)
(* beyond that number.                                                       *)
C2_FullFetch ==
    honest =>
      /\ Len(requests) <= (srcN \div 100) + 1
      /\ pc = "fetch" => Len(requests) < (srcN \div 100) + 1
      /\ FetchReturned =>
           /\ notes = [i \in 1..srcN |-> i]
           /\ Len(requests) = (srcN \div 100) + 1

C2_Witness ==
    /\ honest
    /\ srcN = 200
    /\ FetchReturned
    /\ Len(requests) = 3
    /\ responses[3].data = <<>>
    /\ Len(notes) = 200

(* C3: every chunk produced by split_text_for_blocks has length <= max_len.  *)
C3_ChunkLengthBound ==
    \A i \in 1..Len(blocks) : Len(ChunkText(blocks[i])) <= max_len

C3_Witness ==
    /\ pc = "post"
    /\ Len(input) > max_len
    /\ Len(blocks) >= 2
    /\ \E i \in 1..Len(blocks) : Len(ChunkText(blocks[i])) = max_len

(* C4: the chunker discards nothing but newlines: at every point of the      *)
(* loop the chunks so far followed by the remaining text are the input       *)
(* without some newlines, and when it returns, the chunks joined by single   *)
(* newlines hold exactly the input's non-whitespace characters, in order.    *)
C4_Reconstruction ==
    /\ WithoutNL(Flat(blocks) \o text) = WithoutNL(input)
    /\ Len(Flat(blocks)) + Len(text) <= Len(input)
    /\ pc = "post" => NonWs(JoinNL(blocks)) = NonWs(input)

C4_Witness ==
    /\ pc = "post"
    /\ Len(blocks) >= 2
    /\ Len(Flat(blocks)) < Len(input)
    /\ \E i \in 1..Len(input) : input[i] = " "
    /\ \E i \in 1..Len(blocks) : Len(ChunkText(blocks[i])) = max_len
    /\ Len(NonWs(input)) >= 2

(* C5: in every iteration the chunk is the remaining text up to (excluding)  *)
(* the last newline found at an index > 0 among its first max_len            *)
(* characters, and, when there is no such newline, its first                 *)
(* min(max_len, length) characters; a 3000-character text with a newline at  *)
(* position 1500 and max_len 2900 gets a first chunk of 1500 characters.     *)
C5_NewlinePreference ==
    /\ [][ (pc = "chunk" /\ blocks' # blocks) =>
             LET n == Min(max_len, Len(text))
                 newlines == {i \in 1..(n - 1) : text[i + 1] = NL}
                 expected == IF newlines # {}
                             THEN SubSeq(text, 1, SetMax(newlines))
                             ELSE SubSeq(text, 1, n)
             IN  blocks' = Append(blocks, Block(expected)) ]_vars
    /\ []((input = LongText /\ max_len = 2900 /\ blocks # <<>>) =>
             Len(ChunkText(blocks[1])) = 1500)

C5_Witness ==
    /\ pc = "post"
    /\ Len(blocks) = 2
    /\ Len(ChunkText(blocks[1])) \in 1..(max_len - 1)
    /\ input[Len(ChunkText(blocks[1])) + 1] = NL
    /\ Len(ChunkText(blocks[2])) = max_len
    /\ \A i \in 1..max_len : ChunkText(blocks[2])[i] # NL

(* C6: a fetch that returns no note is followed by no summarization call and *)
(* no post call and the run ends with success; a summarization call or a     *)
(* post call is only made after a fetch that returned at least one note.     *)
C6_EmptyBatch ==
    /\ (FetchReturned /\ notes = <<>>) =>
         /\ gptCalls = <<>>
         /\ postCalls = <<>>
         /\ pc \in {"main", "exited"}
         /\ pc = "exited" => (exit_status = "success" /\ raised = "none")
    /\ (gptCalls # <<>> \/ postCalls # <<>>) => (FetchReturned /\ Len(notes) >= 1)

C6_Witness ==
    /\ pc = "exited"
    /\ FetchReturned
    /\ notes = <<>>
    /\ exit_status = "success"
    /\ log # <<>> /\ log[Len(log)] = <<"warning", "no notes">>

(* C7: a page request answered with a non-success response is the last       *)
(* request of the run, which ends with failure without a summarization or a  *)
(* post call; a failed summarization call is the only one of the run, which  *)
(* ends with failure without a post call.                                    *)
C7_FatalFailures ==
    /\ \A i \in 1..Len(responses) :
         ~responses[i].ok =>
           /\ i = Len(requests)
           /\ pc = "exited"
           /\ exit_status = "failure"
           /\ raised = "HTTPError"
           /\ gptCalls = <<>>
           /\ postCalls = <<>>
    /\ \A i \in 1..Len(gptCalls) :
         ~gptCalls[i].ok =>
           /\ Len(gptCalls) = 1
           /\ pc = "exited"
           /\ exit_status = "failure"
           /\ raised = "OpenAIError"
           /\ postCalls = <<>>

C7_Witness ==
    /\ Len(responses) = 2
    /\ responses[1].ok
    /\ ~responses[2].ok
    /\ Len(notes) = 100
    /\ pc = "exited"
    /\ exit_status = "failure"

(* C8, as stated: whatever way the post call fails, nothing is raised out of *)
(* main, the failure is logged and the run ends with success.                *)
C8_AnyPostFailureIsolated ==
    \A i \in 1..Len(postCalls) :
      postCalls[i].outcome # "ok" =>
        /\ raised = "none"
        /\ exit_status = "success"
        /\ log[Len(log)] = <<"error", "failed to post">>

(* C8, amended: a post call that fails with SlackApiError is the only post   *)
(* call of the run, is logged as an error, raises nothing out of main and    *)
(* the run ends with success, as it does when the post succeeds; a post call *)
(* that fails with any other exception ends the run with failure.            *)
C8_SlackApiErrorIsolated ==
    /\ Len(postCalls) <= 1
    /\ \A i \in 1..Len(postCalls) :
         /\ pc = "exited"
         /\ postCalls[i].outcome = "SlackApiError" =>
              /\ raised = "none"
              /\ exit_status = "success"
              /\ log[Len(log)] = <<"error", "failed to post">>
         /\ postCalls[i].outcome = "ok" =>
              /\ raised = "none"
              /\ exit_status = "success"
         /\ postCalls[i].outcome = "OtherError" =>
              /\ raised = "OtherError"
              /\ exit_status = "failure"

C8_Witness ==
    /\ pc = "exited"
    /\ Len(postCalls) = 1
    /\ postCalls[1].outcome = "SlackApiError"
    /\ Len(postCalls[1].blocks) = 2
    /\ exit_status = "success"

(* C9, as stated: with any of the four configuration values missing, no page *)
(* request, summarization call or post call is ever issued.                  *)
C9_AnyMissingValueAborts ==
    env # ConfigKeys => (requests = <<>> /\ gptCalls = <<>> /\ postCalls = <<>>)

(* C9, amended: with any of the three API credentials missing the run ends   *)
(* at start-up with failure and no page request, summarization call or post  *)
(* call is ever issued; a missing channel identifier alone does not abort    *)
(* the run: the channel is None and the run goes on to fetch.                *)
C9_MissingCredentialAborts ==
    LET credentials == {"SLACK_BOT_TOKEN", "PRODUCTBOARD_API_TOKEN", "OPENAI_API_KEY"}
    IN  /\ ~(credentials \subseteq env) =>
             /\ requests = <<>> /\ gptCalls = <<>> /\ postCalls = <<>>
             /\ pc \in {"startup", "exited"}
             /\ pc = "exited" => (exit_status = "failure" /\ raised = "KeyError")
        /\ (credentials \subseteq env /\ pc # "startup") =>
             /\ raised # "KeyError"
             /\ channel = IF "PRODUCT_TEAM_CHANNEL" \in env THEN "C0123" ELSE "None"
             /\ \A i \in 1..Len(postCalls) : postCalls[i].channel = channel

C9_Witness ==
    /\ env = ConfigKeys \ {"OPENAI_API_KEY"}
    /\ pc = "exited"
    /\ raised = "KeyError"
    /\ exit_status = "failure"
    /\ requests = <<>>

(* C10: split_text_for_blocks terminates, and returns only with the          *)
(* remaining text empty; every iteration emits a non-empty chunk and         *)
(* strictly shortens the remaining text, so there are at most as many chunks *)
(* as characters, and none for the empty text.                               *)
C10_Termination ==
    /\ <>(pc = "post")
    /\ [](pc = "post" => text = <<>>)
    /\ [](\A i \in 1..Len(blocks) : ChunkText(blocks[i]) # <<>>)
    /\ [](Len(blocks) + Len(text) <= Len(input))
    /\ [](input = <<>> => blocks = <<>>)
    /\ [][blocks' # blocks => Len(text') < Len(text)]_vars

C10_Witness ==
    /\ pc = "post"
    /\ Len(blocks) = Len(input)
    /\ Len(blocks) >= 3
    /\ text = <<>>

====
